---- MODULE Spec2Model ----
(***************************************************************************)
(* Model of src/util/errors.rs: the CargoError trait, its implementations  *)
(* (ConcreteCargoError, ChainedError, NotFound, Unauthorized, Box<..>, the *)
(* blanket impl for std Error values), the three chain_error adapters and  *)
(* the std_error display bridge.                                           *)
(*                                                                         *)
(* Error values are records tagged with the Rust type that implements the  *)
(* trait; Option<T> is a sequence of length 0 (None) or 1 (Some).          *)
(***************************************************************************)
EXTENDS Integers, Sequences, FiniteSets, TLC

VARIABLES res, prev, op, factory, e0, applied, out

vars == <<res, prev, op, factory, e0, applied, out>>

(***************************************************************************)
(* Bounds and input domains                                                *)
(***************************************************************************)
\* largest number of successive chain_error calls on one failing result
MaxChain == 2

Descs == {"invalid name", "could not save"}

Details == {"disk full"}

Values == {"crate", "user"}

(***************************************************************************)
(* Option and Result                                                       *)
(***************************************************************************)
None == <<>>

Some(x) == <<x>>

Ok(t) == [tag |-> "Ok", val |-> Some(t), err |-> None]

Err(e) == [tag |-> "Err", val |-> None, err |-> Some(e)]

NoResult == [tag |-> "none", val |-> None, err |-> None]

unwrap_err(r) == r.err[1]

(***************************************************************************)
(* Error types                                                             *)
(***************************************************************************)
ConcreteCargoError(d, x, c, h) ==
    [type |-> "ConcreteCargoError", description |-> d, detail |-> x,
     cause |-> c, human |-> h]

ChainedError(e, c) == [type |-> "ChainedError", error |-> e, cause |-> c]

NotFound == [type |-> "NotFound"]

Unauthorized == [type |-> "Unauthorized"]

\* a value of a type E: Error + Send, with its own description and Display
StdError(d, s) == [type |-> "Error", description |-> d, display |-> s]

Box(x) == [type |-> "Box", inner |-> x]

Response(s, d) == [status |-> s, errors |-> <<[detail |-> d]>>]

json_response(d) == Response("default", d)

(***************************************************************************)
(* Constructors                                                            *)
(***************************************************************************)
internal_error(error, detail) ==
    Box(ConcreteCargoError(error, Some(detail), None, FALSE))

internal_as_human(error) == Box(ConcreteCargoError(error, None, None, TRUE))

internal(error) == Box(ConcreteCargoError(error, None, None, FALSE))

human(error) == Box(ConcreteCargoError(error, None, None, TRUE))

from_error(err) == Box(err)

(***************************************************************************)
(* CargoError methods                                                      *)
(***************************************************************************)
RECURSIVE description(_), cause(_), is_human(_), response(_), Display(_)

Box_description(e) == description(e.inner)

StdError_description_display(e) == e.display

StdError_description(e) == e.description

description(e) ==
    CASE e.type = "ConcreteCargoError" -> e.description
      [] e.type = "ChainedError"       -> description(e.error)
      [] e.type = "NotFound"           -> "not found"
      [] e.type = "Unauthorized"       -> "unauthorized"
      [] e.type = "Error"              -> StdError_description(e)
      [] e.type = "Box"                -> Box_description(e)

ChainedError_cause(e) == Some(e.cause.inner)

cause(e) ==
    CASE e.type = "ConcreteCargoError" ->
            IF e.cause = None THEN None ELSE Some(e.cause[1].inner)
      [] e.type = "ChainedError"       -> ChainedError_cause(e)
      [] e.type = "NotFound"           -> None
      [] e.type = "Unauthorized"       -> None
      [] e.type = "Error"              -> None
      [] e.type = "Box"                -> cause(e.inner)

is_human(e) ==
    CASE e.type = "ConcreteCargoError" -> e.human
      [] e.type = "ChainedError"       -> is_human(e.error)
      [] e.type = "NotFound"           -> FALSE
      [] e.type = "Unauthorized"       -> FALSE
      [] e.type = "Error"              -> FALSE
      [] e.type = "Box"                -> is_human(e.inner)

default_response_disclosing(e) ==
    IF is_human(e) \/ cause(e) = None
    THEN Some(json_response(description(e)))
    ELSE response(cause(e)[1])

\* the trait's default body of response()
default_response(e) ==
    IF is_human(e)
    THEN Some(json_response(description(e)))
    ELSE IF cause(e) = None THEN None ELSE response(cause(e)[1])

NotFound_response_default(e) == default_response(e)

NotFound_response(e) == Some(Response("404 Not Found", "Not Found"))

Unauthorized_response(e) ==
    Some(Response("403 Forbidden", "must be logged in to perform that action"))

ChainedError_response(e) == response(e.error)

response(e) ==
    CASE e.type = "ConcreteCargoError" -> default_response(e)
      [] e.type = "ChainedError"       -> ChainedError_response(e)
      [] e.type = "NotFound"           -> NotFound_response(e)
      [] e.type = "Unauthorized"       -> Unauthorized_response(e)
      [] e.type = "Error"              -> default_response(e)
      [] e.type = "Box"                -> response(e.inner)

ConcreteCargoError_fmt(e) ==
    IF e.detail = None
    THEN e.description
    ELSE e.description \o " (" \o e.detail[1] \o ")"

Display(e) ==
    CASE e.type = "ConcreteCargoError" -> ConcreteCargoError_fmt(e)
      [] e.type = "ChainedError"       -> Display(e.error)
      [] e.type = "NotFound"           -> "Not Found"
      [] e.type = "Unauthorized"       ->
            "must be logged in to perform that action"
      [] e.type = "Error"              -> e.display
      [] e.type = "Box"                -> Display(e.inner)

(***************************************************************************)
(* std_error: the wrapper E and its Display                                *)
(***************************************************************************)
std_error(e) == [type |-> "E", inner |-> e]

E_description(x) == description(x.inner)

RECURSIVE caused_by(_)

\* the body of `while let Some(cause) = err.cause()`
caused_by(err) ==
    IF cause(err) = None
    THEN ""
    ELSE "\nCaused by: " \o Display(cause(err)[1]) \o caused_by(cause(err)[1])

E_fmt_immediate(x) ==
    IF cause(x.inner) = None
    THEN Display(x.inner)
    ELSE Display(x.inner) \o "\nCaused by: " \o Display(cause(x.inner)[1])

E_fmt(x) == Display(x.inner) \o caused_by(x.inner)

(***************************************************************************)
(* chain_error                                                             *)
(***************************************************************************)
chain_error_Result_swapped(self, callback) ==
    IF self.tag = "Err"
    THEN Err(Box(ChainedError(unwrap_err(self), Box(callback))))
    ELSE self

chain_error_Result_dropping(self, callback) ==
    IF self.tag = "Err"
    THEN Err(Box(ChainedError(callback,
                 IF cause(unwrap_err(self)) = None
                 THEN Box(unwrap_err(self))
                 ELSE Box(cause(unwrap_err(self))[1]))))
    ELSE self

chain_error_Result(self, callback) ==
    IF self.tag = "Err"
    THEN Err(Box(ChainedError(callback, Box(unwrap_err(self)))))
    ELSE self

chain_error_Option_failing(self, callback) == Err(Box(callback))

chain_error_Option_wrapped(self, callback) ==
    IF self = None
    THEN Err(Box(ChainedError(callback, Box(internal("missing")))))
    ELSE Ok(self[1])

chain_error_Option(self, callback) ==
    IF self = None THEN Err(Box(callback)) ELSE Ok(self[1])

\* a closure FnOnce() -> CargoResult<T> is modelled by the result of calling it
FnOnce(r) == [type |-> "FnOnce", returns |-> r]

call(f) == f.returns

chain_error_Fn(self, callback) == chain_error_Result(call(self), callback)

(***************************************************************************)
(* Inputs                                                                  *)
(***************************************************************************)
StdErrors ==
    {StdError("io error", "io error"),
     StdError("invalid digit", "invalid digit found in string")}

\* errors a failing operation or a factory can produce without chaining
BaseErrors ==
    {internal(d) : d \in Descs}
      \cup {internal_error(d, x) : d \in Descs, x \in Details}
      \cup {human(d) : d \in Descs}
      \cup {NotFound, Unauthorized}
      \cup StdErrors
      \cup {from_error(n) : n \in StdErrors}

\* a factory may also hand back an error an earlier chain_error produced
ChainedFactoryErrors ==
    {unwrap_err(chain_error_Result(Err(c), f)) :
        c \in {human("invalid name"), NotFound},
        f \in {internal("could not save")}}

Factories == BaseErrors \cup ChainedFactoryErrors

NoOut == [kind |-> "none"]

NoInput == [shape |-> "none"]

(***************************************************************************)
(* State machine                                                           *)
(***************************************************************************)
Init ==
    /\ res = NoResult
    /\ prev = NoInput
    /\ op = "init"
    /\ factory = None
    /\ e0 = None
    /\ applied = <<>>
    /\ out = NoOut

\* an operation called with args produces its own result r
Produce(name, args, r) ==
    /\ res.tag = "none"
    /\ res' = r
    /\ prev' = [shape |-> "args", value |-> args]
    /\ op' = name
    /\ factory' = None
    /\ e0' = r.err
    /\ applied' = <<>>
    /\ out' = NoOut

Succeed == \E v \in Values : Produce("Ok", <<v>>, Ok(v))

FailInternal == \E d \in Descs : Produce("internal", <<d>>, Err(internal(d)))

FailInternalError ==
    \E d \in Descs, x \in Details :
        Produce("internal_error", <<d, x>>, Err(internal_error(d, x)))

FailHuman == \E d \in Descs : Produce("human", <<d>>, Err(human(d)))

FailNotFound == Produce("NotFound", <<>>, Err(NotFound))

FailUnauthorized == Produce("Unauthorized", <<>>, Err(Unauthorized))

FailStdError == \E n \in StdErrors : Produce("Error", <<n>>, Err(n))

FailFromError ==
    \E n \in StdErrors : Produce("from_error", <<n>>, Err(from_error(n)))

ChainResult ==
    /\ res.tag # "none"
    /\ Len(applied) < MaxChain
    /\ \E f \in Factories :
        /\ res' = chain_error_Result(res, f)
        /\ prev' = [shape |-> "Result", value |-> res]
        /\ op' = "chain_error_Result"
        /\ factory' = Some(f)
        /\ applied' = IF res.tag = "Err" THEN Append(applied, f) ELSE applied
    /\ out' = NoOut
    /\ UNCHANGED e0

ChainOption ==
    /\ res.tag = "none"
    /\ \E o \in {None} \cup {Some(v) : v \in Values}, f \in Factories :
        /\ res' = chain_error_Option(o, f)
        /\ prev' = [shape |-> "Option", value |-> o]
        /\ op' = "chain_error_Option"
        /\ factory' = Some(f)
        /\ e0' = res'.err
        /\ applied' = <<>>
        /\ out' = NoOut

ChainFn ==
    /\ res.tag = "none"
    /\ \E r \in {Ok(v) : v \in Values} \cup {Err(e) : e \in Factories},
       f \in Factories :
        /\ res' = chain_error_Fn(FnOnce(r), f)
        /\ prev' = [shape |-> "FnOnce", value |-> r]
        /\ op' = "chain_error_Fn"
        /\ factory' = Some(f)
        /\ e0' = r.err
        /\ applied' = IF r.tag = "Err" THEN <<f>> ELSE <<>>
        /\ out' = NoOut

\* the Result carrying the error (or the value) is discarded
Release ==
    /\ res.tag # "none"
    /\ res' = NoResult
    /\ prev' = NoInput
    /\ op' = "init"
    /\ factory' = None
    /\ e0' = None
    /\ applied' = <<>>
    /\ out' = NoOut

\* the boundary asks the final error for its response
Respond ==
    /\ res.tag = "Err"
    /\ out' = [kind |-> "response", value |-> response(unwrap_err(res))]
    /\ UNCHANGED <<res, prev, op, factory, e0, applied>>

\* the boundary logs the final error through std_error
LogStdError ==
    /\ res.tag = "Err"
    /\ out' = [kind |-> "display",
               description |-> E_description(std_error(unwrap_err(res))),
               text |-> E_fmt(std_error(unwrap_err(res)))]
    /\ UNCHANGED <<res, prev, op, factory, e0, applied>>

Next ==
    \/ Succeed
    \/ FailInternal
    \/ FailInternalError
    \/ FailHuman
    \/ FailNotFound
    \/ FailUnauthorized
    \/ FailStdError
    \/ FailFromError
    \/ ChainResult
    \/ ChainOption
    \/ ChainFn
    \/ Respond
    \/ LogStdError
    \/ Release

Spec == Init /\ [][Next]_vars

(***************************************************************************)
(* Vocabulary of the properties                                            *)
(***************************************************************************)
RECURSIVE CauseWalk(_), Core(_), JoinCausedBy(_)

\* e, e.cause(), e.cause().cause(), ... until no cause remains
CauseWalk(e) ==
    IF cause(e) = None THEN <<e>> ELSE <<e>> \o CauseWalk(cause(e)[1])

\* the error a Box or a ChainedError takes its description and flag from
Core(e) ==
    IF e.type = "Box" THEN Core(e.inner)
    ELSE IF e.type = "ChainedError" THEN Core(e.error)
    ELSE e

JoinCausedBy(texts) ==
    IF Len(texts) = 1
    THEN texts[1]
    ELSE texts[1] \o "\nCaused by: " \o JoinCausedBy(Tail(texts))

IsSentinel(e) == Core(e).type \in {"NotFound", "Unauthorized"}

SentinelDetail(e) ==
    IF Core(e).type = "NotFound"
    THEN "Not Found"
    ELSE "must be logged in to perform that action"

\* the display text each kind of error is documented to have
DisplayText(e) ==
    LET c == Core(e) IN
    CASE c.type = "ConcreteCargoError" ->
            IF c.detail = None
            THEN description(e)
            ELSE description(e) \o " (" \o c.detail[1] \o ")"
      [] c.type = "NotFound"     -> "Not Found"
      [] c.type = "Unauthorized" -> "must be logged in to perform that action"
      [] c.type = "Error"        -> c.display

Failed == res.tag = "Err"

Chained ==
    /\ op \in {"chain_error_Result", "chain_error_Fn"}
    /\ prev.value.tag = "Err"

ChainedOk ==
    /\ op \in {"chain_error_Result", "chain_error_Fn"}
    /\ prev.value.tag = "Ok"

Responded == Failed /\ out.kind = "response"

Displayed == Failed /\ out.kind = "display"

(***************************************************************************)
(* Properties                                                              *)
(***************************************************************************)
\* C1: an error produced by chain_error on a failing Result answers
\* response() by the default rule; in particular a non-human context error
\* (built by internal or internal_error, or an adapted native error) chained
\* over a human cause human(m) yields the response of that cause, a body
\* whose detail is m.
C1_NonHumanContextDefersToHumanCause ==
    (/\ Chained
     /\ Failed
     /\ factory[1] \in BaseErrors
     /\ ~is_human(factory[1])
     /\ ~IsSentinel(factory[1])
     /\ is_human(unwrap_err(prev.value))) =>
        LET e == unwrap_err(res) IN
        /\ response(e) = response(cause(e)[1])
        /\ response(e) = Some(json_response(description(cause(e)[1])))

\* C2: response() of a reachable error is a body only if some error of its
\* cause chain is human or a sentinel; the detail of the body is the
\* description of a human error of the chain or a sentinel's fixed text,
\* never text taken from an internal error; with no human and no sentinel in
\* the chain there is no response.
C2_NonDisclosure ==
    Failed =>
        LET e == unwrap_err(res)
            w == CauseWalk(e)
            r == response(e)
            allowed == {description(w[i]) :
                            i \in {j \in 1..Len(w) : is_human(w[j])}}
                       \cup {SentinelDetail(w[i]) :
                            i \in {j \in 1..Len(w) : IsSentinel(w[j])}}
        IN  /\ r # None => r[1].errors[1].detail \in allowed
            /\ r # None => Len(r[1].errors) = 1
            /\ allowed = {} => r = None
            /\ Responded => out.value = r

C2_Witness ==
    /\ Responded
    /\ out.value # None
    /\ Len(applied) = 2
    /\ \E i \in 1..3 :
        /\ ~is_human(CauseWalk(unwrap_err(res))[i])
        /\ ~IsSentinel(CauseWalk(unwrap_err(res))[i])

\* C3: chain_error with factory output f on Err(e) fails with an error whose
\* description() and human() are those of f and whose cause() is e; on a
\* closure it is the Result rule applied to what the closure returns.
C3_ChainErrorOnErr ==
    Chained =>
        LET e == unwrap_err(prev.value)
            f == factory[1]
        IN  /\ Failed
            /\ description(unwrap_err(res)) = description(f)
            /\ is_human(unwrap_err(res)) = is_human(f)
            /\ cause(unwrap_err(res)) = Some(e)
            /\ description(cause(unwrap_err(res))[1]) = description(e)
            /\ op = "chain_error_Fn" =>
                    res = Err(Box(ChainedError(f, Box(e))))

C3_Witness ==
    /\ Chained
    /\ op = "chain_error_Fn"
    /\ is_human(factory[1]) # is_human(unwrap_err(prev.value))
    /\ description(factory[1]) # description(unwrap_err(prev.value))

\* C4: chain_error on Ok(v), Some(v) or a closure returning Ok(v) succeeds
\* with exactly v, whatever factory is supplied.
C4_SuccessUnchanged ==
    /\ ChainedOk =>
        /\ res = Ok(prev.value.val[1])
        /\ \A g \in Factories :
            /\ chain_error_Result(prev.value, g) = res
            /\ chain_error_Fn(FnOnce(prev.value), g) = res
    /\ (op = "chain_error_Option" /\ prev.value # None) =>
        /\ res = Ok(prev.value[1])
        /\ \A g \in Factories : chain_error_Option(prev.value, g) = res

C4_Witness ==
    /\ op = "chain_error_Option"
    /\ prev.value = Some("crate")
    /\ res = Ok("crate")
    /\ is_human(factory[1])

\* C5 as claimed: chain_error on None fails with an error whose description()
\* is that of the factory's error and whose cause() is none.
C5_NoneHasNoCause ==
    (op = "chain_error_Option" /\ prev.value = None) =>
        /\ Failed
        /\ description(unwrap_err(res)) = description(factory[1])
        /\ cause(unwrap_err(res)) = None

\* C5 amended: chain_error on None fails with the factory's error itself:
\* description(), human() and cause() are those of f(), so cause() is none
\* whenever f() has no cause.
C5_NoneReturnsFactoryError ==
    (op = "chain_error_Option" /\ prev.value = None) =>
        /\ Failed
        /\ description(unwrap_err(res)) = description(factory[1])
        /\ is_human(unwrap_err(res)) = is_human(factory[1])
        /\ cause(unwrap_err(res)) = cause(factory[1])
        /\ factory[1] \in BaseErrors => cause(unwrap_err(res)) = None

C5_Witness ==
    /\ op = "chain_error_Option"
    /\ prev.value = None
    /\ factory[1] = internal("could not save")
    /\ cause(unwrap_err(res)) = None

\* C6: the response() of a sentinel is constant, 404 "Not Found" for
\* NotFound and 403 "must be logged in to perform that action" for
\* Unauthorized, also for a sentinel that is the cause of another error.
C6_SentinelResponseFixed ==
    Failed =>
        LET w == CauseWalk(unwrap_err(res)) IN
        \A i \in 1..Len(w) :
            /\ w[i].type = "NotFound" =>
                /\ response(w[i]) = Some(Response("404 Not Found", "Not Found"))
                /\ (i = 1 /\ Responded) => out.value = response(w[i])
            /\ w[i].type = "Unauthorized" =>
                /\ response(w[i]) =
                      Some(Response("403 Forbidden",
                           "must be logged in to perform that action"))
                /\ (i = 1 /\ Responded) => out.value = response(w[i])

C6_Witness ==
    /\ Responded
    /\ Len(applied) = 1
    /\ CauseWalk(unwrap_err(res))[2].type = "NotFound"
    /\ out.value # response(CauseWalk(unwrap_err(res))[2])

\* C7 as claimed: the display of std_error(e) is e.description() followed,
\* for each cause, by "\nCaused by: " and that cause's description().
C7_DisplayJoinsDescriptions ==
    Displayed =>
        LET w == CauseWalk(unwrap_err(res)) IN
        out.text = JoinCausedBy([i \in 1..Len(w) |-> description(w[i])])

\* C7 amended: the display of std_error(e) is the display text of e followed,
\* for each cause link walked until none remains, by "\nCaused by: " and
\* that cause's display text; the display text is description() for errors
\* built by internal and human and differs for internal_error (detail
\* appended), the sentinels and adapted native errors.
C7_DisplayJoinsDisplayTexts ==
    Displayed =>
        LET w == CauseWalk(unwrap_err(res)) IN
        /\ out.text = JoinCausedBy([i \in 1..Len(w) |-> DisplayText(w[i])])
        /\ out.description = description(unwrap_err(res))
        /\ Len(w) = 3 =>
            out.text = DisplayText(w[1]) \o "\nCaused by: "
                         \o DisplayText(w[2]) \o "\nCaused by: "
                         \o DisplayText(w[3])

C7_Witness ==
    /\ Displayed
    /\ Len(CauseWalk(unwrap_err(res))) = 3
    /\ out.text =
         "could not save\nCaused by: invalid name\nCaused by: invalid name (disk full)"

\* C8: human(d) is human, internal(d) and internal_error(d, x) are not, none
\* of the three has a cause; human(d).response() has the single detail d and
\* the other two have no response.
C8_Constructors ==
    (op \in {"internal", "internal_error", "human"}) =>
        LET e == unwrap_err(res) IN
        /\ description(e) = prev.value[1]
        /\ is_human(e) = (op = "human")
        /\ cause(e) = None
        /\ response(e) = IF op = "human"
                         THEN Some(json_response(prev.value[1]))
                         ELSE None
        /\ Responded => out.value = response(e)

C8_Witness ==
    /\ op = "internal"
    /\ Responded
    /\ out.value = None

\* C9: an adapted native error has the description of the wrapped value, no
\* cause, is not human and has no response; from_error keeps all of these.
C9_AdaptedNativeError ==
    (op \in {"Error", "from_error"}) =>
        LET e == unwrap_err(res)
            n == prev.value[1]
        IN  /\ description(e) = n.description
            /\ cause(e) = None
            /\ ~is_human(e)
            /\ response(e) = None
            /\ op = "from_error" =>
                /\ e = from_error(n)
                /\ description(e) = description(n)
                /\ cause(e) = cause(n)
                /\ is_human(e) = is_human(n)
                /\ response(e) = response(n)

C9_Witness ==
    /\ op = "from_error"
    /\ prev.value[1].display # prev.value[1].description
    /\ Responded

\* C10: after n chain_error calls with factories f1..fn on a failing result
\* whose error e0 has k cause links, the error has n + k cause links; walking
\* cause() meets the descriptions and human flags of fn, ..., f1 and then e0
\* and its causes, each unchanged and in the original order.
C10_ChainPreserved ==
    (Failed /\ e0 # None) =>
        LET w == CauseWalk(unwrap_err(res))
            w0 == CauseWalk(e0[1])
            n == Len(applied)
        IN  /\ Len(w) - 1 = n + (Len(w0) - 1)
            /\ \A i \in 1..n :
                /\ description(w[i]) = description(applied[n + 1 - i])
                /\ is_human(w[i]) = is_human(applied[n + 1 - i])
            /\ \A j \in 1..Len(w0) : w[n + j] = w0[j]
            /\ \A i, j \in 1..Len(w) : i # j => w[i] # w[j]

C10_Witness ==
    /\ Failed
    /\ e0 # None
    /\ Len(applied) = 2
    /\ Len(CauseWalk(e0[1])) = 2
    /\ description(applied[1]) # description(applied[2])

====
